---- MODULE Spec2Model ----
(***************************************************************************)
(* State-machine model of the command-line chat scripts of the repository  *)
(* and of the remote agent service they drive.  Each behaviour is one      *)
(* execution of one script (chosen in Init).  The script side is           *)
(* translated statement by statement from the sources; the remote service  *)
(* (run status, surfaced tool calls, acceptance of submitted outputs) is    *)
(* the environment.                                                        *)
(***************************************************************************)
EXTENDS Integers, Sequences, FiniteSets

\* ------------------------------------------------------------------ bounds
MaxRounds == 2   \* times one run may enter requires_action
MaxCalls  == 2   \* tool calls surfaced in one requires_action round

\* --------------------------------------------------------------- vocabulary
Scripts == {"email", "freshdesk", "code_interpreter", "azureai_search",
            "tripadvisor", "filesearch"}

Pending  == {"queued", "in_progress"}

\* the statuses in which the service leaves a run for good: the three the
\* scripts name, and expired, which a run gets when its time is up and which
\* the scripts never name
Terminal == {"completed", "failed", "cancelled", "expired"}

\* function names the agent may ask for; each script registers one of them
FuncNames == {"send_email", "create_freshdesk_ticket"}

\* shapes of the JSON text in tool_call.function.arguments
ArgShapes == {"valid", "missing_key", "undecodable", "empty"}

\* what the handler's outbound HTTP request does: a status code, or raises
HttpResults == {"200", "201", "202", "500", "raise"}

\* what happens to one tool call when the loop reaches it: the shape of its
\* arguments text and the result of the HTTP request its handler makes (a
\* request built from defective arguments is answered with an error status)
Fates == {f \in [arguments : ArgShapes, http : HttpResults] :
             f.arguments # "valid" => f.http = "500"}

VARIABLES
    script,    \* which script this execution is
    pc,        \* position of the script
    exc,       \* exception that ended the chat loop ("none" while running)
    run,       \* the script's variable `run`
    outputs,   \* the script's list outputs / tool_outputs, until submitted
    svcStatus, \* service side: status of the newest run of the thread
    pend,      \* service side: required_action of the newest run
    rounds,    \* service side: requires_action rounds of the newest run
    nextId,    \* service side: next tool call id of the newest run
    abandoned, \* service side: some run was superseded while not yet terminal
    existing,  \* service side: resources that exist
    invoked,   \* history: call ids handed to a handler, for the newest run
    raisedIn,  \* history: call ids whose handler raised, for the newest run
    nsub,      \* history: submit_tool_outputs requests issued for the newest run
    polls,     \* history: parity of the runs.get requests issued
    older,     \* service side: the thread holds an assistant message of an
               \* earlier run
    owed,      \* history: user messages taken minus runs created
    printed,   \* what the script printed as the reply of the current turn
    deletes    \* history: resources for which a delete request was issued

vars == <<script, pc, exc, run, outputs, svcStatus, pend, rounds, nextId,
          abandoned, existing, invoked, raisedIn, nsub, polls, older, owed,
          printed, deletes>>

svc   == <<svcStatus, pend, rounds, nextId, abandoned, older>>
hist  == <<invoked, raisedIn, nsub, polls>>
turn  == <<owed, printed>>

\* ------------------------------------------------------------------ helpers
NoAction == [present |-> FALSE, calls |-> <<>>]
NoRun    == [status |-> "none", required_action |-> NoAction]

Ids(s) == {s[i].id : i \in DOMAIN s}
OutIds(s) == {s[i].tool_call_id : i \in DOMAIN s}

\* one more runs.get request
Tick(n) == 1 - n

\* what runs.create / runs.get / submit_tool_outputs return
Snapshot(st, p) == [status |-> st, required_action |-> p]

\* all call lists the service may surface in one round, ids from `first`
CallLists(first) ==
    UNION { { [i \in 1..n |-> [id |-> first + i - 1, name |-> nm[i]]] :
                nm \in [1..n -> FuncNames] } :
            n \in 1..MaxCalls }

\* --------------------------------------------------------- remote service
\* resources each script creates before its chat loop starts
Created(s) ==
    IF s = "filesearch" THEN {"agent", "thread", "file"}
    ELSE {"agent", "thread"}

\* submit_tool_outputs is accepted only for a run waiting for outputs, with
\* exactly one output per pending call
Accepts(batch) ==
    /\ svcStatus = "requires_action"
    /\ pend.present
    /\ Len(batch) = Len(pend.calls)
    /\ OutIds(batch) = Ids(pend.calls)
    /\ Cardinality(OutIds(batch)) = Len(batch)

\* what submit_tool_outputs may raise: the request can fail like any other
\* (HttpResponseError), and a batch the service does not accept is answered
\* with an error status, raised as an HttpResponseError too
SubmitErrors(batch) ==
    {"HttpResponseError"}
        \cup (IF Accepts(batch) THEN {} ELSE {"HttpResponseError: rejected"})

\* the service moves the newest run along its lifecycle; the script sees
\* the service only through runs.get and submit_tool_outputs, so the moves
\* are interleaved just before these
RemoteStep ==
    /\ pc \in {"get", "submit"}
    /\ \/ /\ svcStatus = "queued"
          /\ svcStatus' = "in_progress"
          /\ UNCHANGED <<pend, rounds, nextId>>
       \/ /\ svcStatus = "in_progress"
          /\ \E s \in Terminal : svcStatus' = s
          /\ UNCHANGED <<pend, rounds, nextId>>
       \/ /\ svcStatus = "in_progress"
          /\ rounds < MaxRounds
          /\ \E cl \in CallLists(nextId) :
                /\ pend' = [present |-> TRUE, calls |-> cl]
                /\ nextId' = nextId + Len(cl)
          /\ svcStatus' = "requires_action"
          /\ rounds' = rounds + 1
       \/ /\ svcStatus = "in_progress"
          /\ rounds < MaxRounds
          /\ \E p \in {NoAction, [present |-> TRUE, calls |-> <<>>]} : pend' = p
          /\ svcStatus' = "requires_action"
          /\ rounds' = rounds + 1
          /\ UNCHANGED nextId
    /\ UNCHANGED <<script, deletes, pc, exc, run, outputs, abandoned, existing, hist,
                   older, turn>>

\* the service ends a run that is still waiting for tool outputs (it
\* expires, is cancelled, or fails)
RemoteExpire ==
    /\ pc \in {"get", "submit"}
    /\ svcStatus = "requires_action"
    /\ \E s \in Terminal : svcStatus' = s
    /\ pend' = NoAction
    /\ UNCHANGED <<script, deletes, pc, exc, run, outputs, rounds, nextId, abandoned,
                   existing, hist, older, turn>>

\* effect on the service of messages.create and of creating a run that the
\* call returns in status st: runs.create returns it queued,
\* create_and_process returns once it has left the three waiting statuses
NewRun(st) ==
    /\ svcStatus' = st
    /\ pend' = NoAction
    /\ rounds' = 0
    /\ nextId' = 1
    /\ abandoned' = (abandoned \/ svcStatus \notin Terminal \cup {"none"})
    /\ UNCHANGED older

NewRunHistory ==
    /\ invoked' = <<>>
    /\ raisedIn' = {}
    /\ nsub' = 0
    /\ UNCHANGED polls

\* a user message is taken and its run is created in the same step; nothing
\* has been printed for the new turn yet
NewTurn ==
    /\ owed' = owed + 1 - 1
    /\ printed' = "nothing"

\* -------------------------------------------------------- thread messages
\* whether a run that ended in status st has added an assistant message to
\* the thread: a completed run normally has, a run that did not complete
\* has not.  The script learns of it only when it lists the messages
Replies(st) == IF st = "completed" THEN BOOLEAN ELSE {FALSE}

\* the messages of the thread that matter to the reply, oldest first: the
\* newest assistant message of an earlier run, the user message of this
\* turn, the assistant message of the newest run when it has added one
Thread(fresh) ==
    (IF older THEN <<"user", "earlier">> ELSE <<>>)
        \o <<"user">> \o (IF fresh THEN <<"current">> ELSE <<>>)

Reverse(s) == [i \in 1..Len(s) |-> s[Len(s) + 1 - i]]

\* the order of messages.list when the caller names none is the service's
\* default; the sources do not fix it
ListOrders == {"asc", "desc"}

\* messages.list(order = ...)
Listing(order, fresh) ==
    IF order = "asc" THEN Thread(fresh) ELSE Reverse(Thread(fresh))

IsAssistant(m) == m \in {"earlier", "current"}

\* next((m for m in msgs if m is an assistant message), default)
RECURSIVE FirstAssistant(_, _)
FirstAssistant(msgs, default) ==
    IF msgs = <<>> THEN default
    ELSE IF IsAssistant(Head(msgs)) THEN Head(msgs)
    ELSE FirstAssistant(Tail(msgs), default)

\* ----------------------------------------------------- email_integration.py
\* what a call site sees when the function it called raised instead of
\* returning
Raises == "raises RequestException"

\* mutant: send_email_function without its try / except
send_email_unguarded(http) ==
    IF http = "raise" THEN Raises
    ELSE IF http \in {"200", "202"} THEN "Email sent!"
    ELSE "Failed: " \o http

\* send_email_function: the string it returns for each fate of
\* requests.post; the except clause turns a raising request into a string
send_email_function(http) ==
    IF http = "raise" THEN "Error"
    ELSE IF http \in {"200", "202"} THEN "Email sent!"
    ELSE "Failed: " \o http

\* mutant: an output is kept only for an email that was sent
RECURSIVE EmailForDropsFailed(_, _, _, _, _)
EmailForDropsFailed(calls, fate, i, outs, inv) ==
    IF i > Len(calls)
    THEN [outputs |-> outs, invoked |-> inv, exc |-> "none"]
    ELSE IF calls[i].name = "send_email"
    THEN IF fate[i].arguments \in {"undecodable", "empty"}
         THEN [outputs |-> outs, invoked |-> inv, exc |-> "JSONDecodeError"]
         ELSE IF fate[i].arguments = "missing_key"
         THEN [outputs |-> outs, invoked |-> inv, exc |-> "KeyError"]
         ELSE EmailForDropsFailed(calls, fate, i + 1,
                  IF send_email_function(fate[i].http) = "Email sent!"
                  THEN Append(outs, [tool_call_id |-> calls[i].id,
                                     output |-> "Email sent!"])
                  ELSE outs,
                  Append(inv, calls[i].id))
    ELSE EmailForDropsFailed(calls, fate, i + 1, outs, inv)

\* the for-loop of chat over the surfaced calls, from call i on; nothing
\* in chat catches what json.loads, the key lookups or the handler raise
RECURSIVE EmailFor(_, _, _, _, _)
EmailFor(calls, fate, i, outs, inv) ==
    IF i > Len(calls)
    THEN [outputs |-> outs, invoked |-> inv, exc |-> "none"]
    ELSE IF calls[i].name = "send_email"
    THEN IF fate[i].arguments \in {"undecodable", "empty"}
         THEN [outputs |-> outs, invoked |-> inv, exc |-> "JSONDecodeError"]
         ELSE IF fate[i].arguments = "missing_key"
         THEN [outputs |-> outs, invoked |-> inv, exc |-> "KeyError"]
         ELSE IF send_email_function(fate[i].http) = Raises
         THEN [outputs |-> outs, invoked |-> Append(inv, calls[i].id),
               exc |-> "RequestException"]
         ELSE EmailFor(calls, fate, i + 1,
                  Append(outs, [tool_call_id |-> calls[i].id,
                                output |-> send_email_function(fate[i].http)]),
                  Append(inv, calls[i].id))
    ELSE EmailFor(calls, fate, i + 1, outs, inv)

\* mutant: a failed run is not treated as finished
EmailLoopCondKeepsFailed(st) == st # "completed" /\ st # "cancelled"

EmailLoopCond(st) == st \in {"queued", "in_progress", "requires_action"}

\* main: input(); exit words leave the loop, a message calls chat, which
\* posts the message and creates the run
EmailInput ==
    /\ script = "email" /\ pc = "input"
    /\ \/ /\ pc' = "cleanup"
          /\ UNCHANGED <<exc, run, svc, hist, turn>>
       \/ /\ \/ /\ NewRun("queued") /\ NewRunHistory /\ NewTurn
                /\ run' = Snapshot(svcStatus', pend')
                /\ pc' = "test"
                /\ UNCHANGED exc
             \/ /\ exc' = "HttpResponseError"
                /\ pc' = "cleanup"
                /\ owed' = owed + 1
                /\ UNCHANGED <<run, svc, hist, printed>>
    /\ UNCHANGED <<script, deletes, outputs, existing>>

\* chat: the while test and the if inside it
EmailLoopTest ==
    /\ script = "email" /\ pc = "test"
    /\ pc' = IF ~EmailLoopCond(run.status) THEN "reply"
             ELSE IF run.status = "requires_action" THEN "resolve"
             ELSE "get"
    /\ UNCHANGED <<script, deletes, exc, run, outputs, svc, existing, hist, turn>>

\* chat: outputs = [] and the for-loop over the tool calls; an exception
\* leaves chat (its locals are gone) and main
EmailResolve ==
    /\ script = "email" /\ pc = "resolve"
    /\ IF ~run.required_action.present
       THEN /\ exc' = "AttributeError"
            /\ pc' = "cleanup"
            /\ run' = NoRun
            /\ outputs' = <<>>
            /\ UNCHANGED invoked
       ELSE \E fate \in [DOMAIN run.required_action.calls -> Fates] :
              LET r == EmailFor(run.required_action.calls, fate, 1, <<>>, invoked)
              IN /\ invoked' = r.invoked
                 /\ exc' = r.exc
                 /\ IF r.exc = "none"
                    THEN /\ outputs' = r.outputs
                         /\ pc' = "submit"
                         /\ UNCHANGED run
                    ELSE /\ outputs' = <<>>
                         /\ pc' = "cleanup"
                         /\ run' = NoRun
    /\ UNCHANGED <<script, deletes, svc, existing, raisedIn, nsub, polls, turn>>

\* chat: run = submit_tool_outputs(...); the list is not read again.  The
\* call raises when the service rejects the batch, or on any request failure
EmailSubmit ==
    /\ script = "email" /\ pc = "submit"
    /\ nsub' = nsub + 1
    /\ outputs' = <<>>
    /\ \/ /\ Accepts(outputs)
          /\ svcStatus' = "queued"
          /\ pend' = NoAction
          /\ run' = Snapshot(svcStatus', pend')
          /\ pc' = "get"
          /\ UNCHANGED exc
       \/ /\ exc' \in SubmitErrors(outputs)
          /\ pc' = "cleanup"
          /\ run' = NoRun
          /\ UNCHANGED <<svcStatus, pend>>
    /\ UNCHANGED <<script, deletes, rounds, nextId, abandoned, older,
                   existing, invoked, raisedIn, polls, turn>>

\* chat: time.sleep(1); run = runs.get(...)
EmailPoll ==
    /\ script = "email" /\ pc = "get"
    /\ polls' = Tick(polls)
    /\ \/ /\ run' = Snapshot(svcStatus, pend)
          /\ pc' = "test"
          /\ UNCHANGED exc
       \/ /\ exc' = "HttpResponseError"
          /\ pc' = "cleanup"
          /\ run' = NoRun
    /\ UNCHANGED <<script, deletes, outputs, svc, existing, invoked, raisedIn, nsub, turn>>

\* chat: messages.list(order = DESCENDING, limit = 1); the text of that
\* message when it is an assistant message, otherwise chat falls off its end
\* and returns None
EmailReplyText(fresh) ==
    FirstAssistant(SubSeq(Listing("desc", fresh), 1, 1), "None")

\* chat: messages.list and the returned reply; main prints it
EmailReply ==
    /\ script = "email" /\ pc = "reply"
    /\ run' = NoRun
    /\ \/ /\ pc' = "input" /\ UNCHANGED exc
          /\ \E fresh \in Replies(run.status) :
                /\ older' = (older \/ fresh)
                /\ printed' = EmailReplyText(fresh)
       \/ /\ exc' = "HttpResponseError" /\ pc' = "cleanup"
          /\ UNCHANGED <<printed, older>>
    /\ UNCHANGED <<script, deletes, outputs, svcStatus, pend, rounds, nextId, abandoned,
                   existing, hist, owed>>

\* mutant: the interrupt is noted and the loop goes on polling
EmailInterruptResumes ==
    /\ script = "email"
    /\ pc \in {"test", "resolve", "submit", "get"}
    /\ exc' = "KeyboardInterrupt"
    /\ pc' = "get"
    /\ UNCHANGED <<script, deletes, run, outputs, svc, existing, hist, turn>>

\* main: Ctrl-C anywhere inside the try block
EmailInterrupt ==
    /\ script = "email"
    /\ pc \in {"input", "test", "resolve", "submit", "get", "reply"}
    /\ exc' = "KeyboardInterrupt"
    /\ pc' = "cleanup"
    /\ run' = NoRun
    /\ outputs' = <<>>
    /\ UNCHANGED <<script, deletes, svc, existing, hist, turn>>

\* main: the finally block; both deletes share one try, so a failing
\* threads.delete skips delete_agent
EmailCleanup ==
    /\ script = "email" /\ pc = "cleanup"
    /\ \E threadOk \in BOOLEAN, agentOk \in BOOLEAN :
          /\ existing' = IF ~threadOk THEN existing
                         ELSE IF ~agentOk THEN existing \ {"thread"}
                         ELSE existing \ {"thread", "agent"}
          /\ deletes' = IF ~threadOk THEN {"thread"} ELSE {"thread", "agent"}
    /\ pc' = "done"
    /\ UNCHANGED <<script, exc, run, outputs, svc, hist, turn>>

\* ------------------------------------------------- freshdesk_integration.py
\* create_freshdesk_ticket: the JSON text it returns for a response status
create_freshdesk_ticket(http) ==
    IF http = "201" THEN "ticket" ELSE "status_code error"

\* mutant: a handler whose request raised is invoked a second time
RECURSIVE FdForRetry(_, _, _, _, _)
FdForRetry(calls, fate, i, outs, inv) ==
    IF i > Len(calls)
    THEN [outputs |-> outs, invoked |-> inv, exc |-> "none", raised |-> {}]
    ELSE IF fate[i].arguments = "undecodable"
    THEN [outputs |-> outs, invoked |-> inv, exc |-> "JSONDecodeError",
          raised |-> {}]
    ELSE IF calls[i].name = "create_freshdesk_ticket"
    THEN IF fate[i].http = "raise"
         THEN [outputs |-> outs,
               invoked |-> Append(Append(inv, calls[i].id), calls[i].id),
               exc |-> "RequestException", raised |-> {calls[i].id}]
         ELSE FdForRetry(calls, fate, i + 1,
                  Append(outs, [tool_call_id |-> calls[i].id,
                                output |-> create_freshdesk_ticket(fate[i].http)]),
                  Append(inv, calls[i].id))
    ELSE FdForRetry(calls, fate, i + 1,
             Append(outs, [tool_call_id |-> calls[i].id,
                           output |-> "Unknown tool"]),
             inv)

\* the for-loop over tool_calls, from call i on; nothing catches what
\* json.loads or requests.post raise
RECURSIVE FdFor(_, _, _, _, _)
FdFor(calls, fate, i, outs, inv) ==
    IF i > Len(calls)
    THEN [outputs |-> outs, invoked |-> inv, exc |-> "none", raised |-> {}]
    ELSE IF fate[i].arguments = "undecodable"
    THEN [outputs |-> outs, invoked |-> inv, exc |-> "JSONDecodeError",
          raised |-> {}]
    ELSE IF calls[i].name = "create_freshdesk_ticket"
    THEN IF fate[i].http = "raise"
         THEN [outputs |-> outs, invoked |-> Append(inv, calls[i].id),
               exc |-> "RequestException", raised |-> {calls[i].id}]
         ELSE FdFor(calls, fate, i + 1,
                  Append(outs, [tool_call_id |-> calls[i].id,
                                output |-> create_freshdesk_ticket(fate[i].http)]),
                  Append(inv, calls[i].id))
    ELSE FdFor(calls, fate, i + 1,
             Append(outs, [tool_call_id |-> calls[i].id,
                           output |-> "Unknown tool"]),
             inv)

\* mutant: the loop stops waiting as soon as the run is in progress
FdLoopCondEarly(st) == st \in {"queued", "requires_action"}

FdLoopCond(st) == st \in {"queued", "in_progress", "requires_action"}

\* mutant: the status test accepts a run that is still in progress
FdNeedsOutputsLoose(r) == r.status \in {"in_progress", "requires_action"}

FdNeedsOutputs(r) == r.status = "requires_action" /\ r.required_action.present

\* input(); "end" leaves the loop; otherwise messages.create and runs.create.
\* Nothing in the script catches an exception: it ends the process.
FdInput ==
    /\ script = "freshdesk" /\ pc = "input"
    /\ \/ /\ pc' = "cleanup"
          /\ UNCHANGED <<exc, run, svc, hist, turn>>
       \/ /\ \/ /\ NewRun("queued") /\ NewRunHistory /\ NewTurn
                /\ run' = Snapshot(svcStatus', pend')
                /\ pc' = "test"
                /\ UNCHANGED exc
             \/ /\ exc' = "HttpResponseError"
                /\ pc' = "done"
                /\ owed' = owed + 1
                /\ UNCHANGED <<run, svc, hist, printed>>
    /\ UNCHANGED <<script, deletes, outputs, existing>>

\* the while test
FdLoopTest ==
    /\ script = "freshdesk" /\ pc = "test"
    /\ pc' = IF FdLoopCond(run.status) THEN "get" ELSE "reply"
    /\ UNCHANGED <<script, deletes, exc, run, outputs, svc, existing, hist, turn>>

\* time.sleep(1); run = runs.get(...); then the if on the fresh run
FdPoll ==
    /\ script = "freshdesk" /\ pc = "get"
    /\ polls' = Tick(polls)
    /\ \/ /\ run' = Snapshot(svcStatus, pend)
          /\ pc' = IF FdNeedsOutputs(run') THEN "resolve" ELSE "test"
          /\ UNCHANGED exc
       \/ /\ exc' = "HttpResponseError"
          /\ pc' = "done"
          /\ UNCHANGED run
    /\ UNCHANGED <<script, deletes, outputs, svc, existing, invoked, raisedIn, nsub, turn>>

\* tool_outputs = [] and the for-loop over tool_calls
FdResolve ==
    /\ script = "freshdesk" /\ pc = "resolve"
    /\ \E fate \in [DOMAIN run.required_action.calls -> Fates] :
          LET r == FdFor(run.required_action.calls, fate, 1, <<>>, invoked)
          IN /\ invoked' = r.invoked
             /\ raisedIn' = raisedIn \cup r.raised
             /\ exc' = r.exc
             /\ outputs' = r.outputs
             /\ pc' = IF r.exc = "none" THEN "submit" ELSE "done"
    /\ UNCHANGED <<script, deletes, run, svc, existing, nsub, polls, turn>>

\* run = submit_tool_outputs(...); the list is not read again.  The call
\* raises when the service rejects the batch, or on any request failure
FdSubmit ==
    /\ script = "freshdesk" /\ pc = "submit"
    /\ nsub' = nsub + 1
    /\ outputs' = <<>>
    /\ \/ /\ Accepts(outputs)
          /\ svcStatus' = "queued"
          /\ pend' = NoAction
          /\ run' = Snapshot(svcStatus', pend')
          /\ pc' = "test"
          /\ UNCHANGED exc
       \/ /\ exc' \in SubmitErrors(outputs)
          /\ pc' = "done"
          /\ UNCHANGED <<run, svcStatus, pend>>
    /\ UNCHANGED <<script, deletes, rounds, nextId, abandoned, older,
                   existing, invoked, raisedIn, polls, turn>>

\* messages = list(messages.list(thread_id)); the first assistant message
\* of reversed(messages), or the no-reply line
FdReplyText(order, fresh) ==
    FirstAssistant(Reverse(Listing(order, fresh)), "no reply")

\* print the status, messages.list, print the last assistant message
FdReply ==
    /\ script = "freshdesk" /\ pc = "reply"
    /\ \/ /\ pc' = "input" /\ UNCHANGED exc
          /\ \E fresh \in Replies(run.status) :
                /\ older' = (older \/ fresh)
                /\ \E order \in ListOrders :
                      printed' = FdReplyText(order, fresh)
       \/ /\ exc' = "HttpResponseError" /\ pc' = "done"
          /\ UNCHANGED <<printed, older>>
    /\ UNCHANGED <<script, deletes, run, outputs, svcStatus, pend, rounds, nextId, abandoned,
                   existing, hist, owed>>

\* Ctrl-C anywhere: no handler, the process ends
FdInterrupt ==
    /\ script = "freshdesk"
    /\ pc \in {"input", "test", "resolve", "submit", "get", "reply", "cleanup"}
    /\ exc' = "KeyboardInterrupt"
    /\ pc' = "done"
    /\ UNCHANGED <<script, deletes, run, outputs, svc, existing, hist, turn>>

\* after the loop: delete_agent only
FdCleanup ==
    /\ script = "freshdesk" /\ pc = "cleanup"
    /\ \/ /\ existing' = existing \ {"agent"} /\ UNCHANGED exc
       \/ /\ exc' = "HttpResponseError" /\ UNCHANGED existing
    /\ deletes' = {"agent"}
    /\ pc' = "done"
    /\ UNCHANGED <<script, run, outputs, svc, hist, turn>>

\* ------------------------------------------------- code_interpreter_agent.py
\* the polling loop's exit test on the local variable status (kept in
\* run.status here)
CiFinished(st) == st \in {"completed", "failed", "cancelled"}

\* input(); exit/quit leave the loop; otherwise messages.create and
\* create_and_process.  Nothing catches an exception.
CiInput ==
    /\ script = "code_interpreter" /\ pc = "input"
    /\ \/ /\ pc' = "cleanup"
          /\ UNCHANGED <<exc, run, svc, hist, turn>>
       \/ /\ \E st \in Terminal : NewRun(st)
          /\ NewRunHistory /\ NewTurn
          /\ run' = Snapshot(svcStatus', pend')
          /\ pc' = "get"
          /\ UNCHANGED exc
       \/ /\ exc' = "HttpResponseError"
          /\ pc' = "done"
          /\ owed' = owed + 1
          /\ UNCHANGED <<run, svc, hist, printed>>
    /\ UNCHANGED <<script, deletes, outputs, existing>>

\* while True: time.sleep(3); status = runs.get(...).status; break when final
CiPoll ==
    /\ script = "code_interpreter" /\ pc = "get"
    /\ polls' = Tick(polls)
    /\ \/ /\ run' = Snapshot(svcStatus, pend)
          /\ pc' = IF CiFinished(run'.status) THEN "reply" ELSE "get"
          /\ UNCHANGED exc
       \/ /\ exc' = "HttpResponseError"
          /\ pc' = "done"
          /\ UNCHANGED run
    /\ UNCHANGED <<script, deletes, outputs, svc, existing, invoked, raisedIn, nsub, turn>>

\* what the turn prints: the failure line for a run that did not complete,
\* otherwise every assistant message of messages.list
CiReplyText(st, fresh) ==
    IF st # "completed" THEN "failure"
    ELSE IF older \/ fresh THEN "all assistant messages"
    ELSE "nothing"

\* a run that did not complete is reported and the loop continues; otherwise
\* messages.list and the assistant messages are printed
CiReply ==
    /\ script = "code_interpreter" /\ pc = "reply"
    /\ \/ /\ pc' = "input" /\ UNCHANGED exc
          /\ \E fresh \in Replies(run.status) :
                /\ older' = (older \/ fresh)
                /\ printed' = CiReplyText(run.status, fresh)
       \/ /\ run.status = "completed"
          /\ exc' = "HttpResponseError" /\ pc' = "done"
          /\ UNCHANGED <<printed, older>>
    /\ UNCHANGED <<script, deletes, run, outputs, svcStatus, pend, rounds, nextId, abandoned,
                   existing, hist, owed>>

CiInterrupt ==
    /\ script = "code_interpreter"
    /\ pc \in {"input", "get", "reply", "cleanup"}
    /\ exc' = "KeyboardInterrupt"
    /\ pc' = "done"
    /\ UNCHANGED <<script, deletes, run, outputs, svc, existing, hist, turn>>

\* after the loop: delete_agent only
CiCleanup ==
    /\ script = "code_interpreter" /\ pc = "cleanup"
    /\ \/ /\ existing' = existing \ {"agent"} /\ UNCHANGED exc
       \/ /\ exc' = "HttpResponseError" /\ UNCHANGED existing
    /\ deletes' = {"agent"}
    /\ pc' = "done"
    /\ UNCHANGED <<script, run, outputs, svc, hist, turn>>

\* --------------------------------------------------- azureai_search_agent.py
\* input(); "end" deletes the agent and leaves the loop; otherwise
\* create_message and create_and_process_run
AzInput ==
    /\ script = "azureai_search" /\ pc = "input"
    /\ \/ /\ existing' = existing \ {"agent"}
          /\ deletes' = {"agent"}
          /\ pc' = "done"
          /\ UNCHANGED <<exc, run, svc, hist, turn>>
       \/ /\ \E st \in Terminal : NewRun(st)
          /\ NewRunHistory /\ NewTurn
          /\ run' = Snapshot(svcStatus', pend')
          /\ pc' = "test"
          /\ UNCHANGED <<exc, existing, deletes>>
       \/ /\ exc' = "HttpResponseError"
          /\ pc' = "done"
          /\ owed' = owed + 1
          /\ UNCHANGED <<run, svc, hist, existing, printed, deletes>>
    /\ UNCHANGED <<script, outputs>>

\* mutant: a failed run is reported and the loop goes on
AzFailedIgnored(st) == FALSE

AzFailed(st) == st = "failed"

\* if run.status == "failed": print, break
AzLoopTest ==
    /\ script = "azureai_search" /\ pc = "test"
    /\ pc' = IF AzFailed(run.status) THEN "done" ELSE "reply"
    /\ printed' = IF AzFailed(run.status) THEN "failure" ELSE printed
    /\ UNCHANGED <<script, deletes, exc, run, outputs, svc, existing, hist, owed>>

\* messages.data[0] of list_messages(thread_id), whatever its role
AzReplyText(order, fresh) == Listing(order, fresh)[1]

\* list_messages and print messages.data[0]
AzReply ==
    /\ script = "azureai_search" /\ pc = "reply"
    /\ \/ /\ pc' = "input" /\ UNCHANGED exc
          /\ \E fresh \in Replies(run.status) :
                /\ older' = (older \/ fresh)
                /\ \E order \in ListOrders :
                      printed' = AzReplyText(order, fresh)
       \/ /\ exc' = "HttpResponseError" /\ pc' = "done"
          /\ UNCHANGED <<printed, older>>
    /\ UNCHANGED <<script, deletes, run, outputs, svcStatus, pend, rounds, nextId, abandoned,
                   existing, hist, owed>>

AzInterrupt ==
    /\ script = "azureai_search"
    /\ pc \in {"input", "test", "reply"}
    /\ exc' = "KeyboardInterrupt"
    /\ pc' = "done"
    /\ UNCHANGED <<script, deletes, run, outputs, svc, existing, hist, turn>>

\* -------------------------------------------------- tripadvisor_integration.py
\* input(); exit/quit leave the loop; a message calls process_conversation:
\* messages.create and create_and_process (run is its local)
TaInput ==
    /\ script = "tripadvisor" /\ pc = "input"
    /\ \/ /\ pc' = "cleanup"
          /\ UNCHANGED <<exc, run, svc, hist, turn>>
       \/ /\ \E st \in Terminal : NewRun(st)
          /\ NewRunHistory /\ NewTurn
          /\ run' = Snapshot(svcStatus', pend')
          /\ pc' = "reply"
          /\ UNCHANGED exc
       \/ /\ exc' = "HttpResponseError"
          /\ pc' = "done"
          /\ owed' = owed + 1
          /\ UNCHANGED <<run, svc, hist, printed>>
    /\ UNCHANGED <<script, deletes, outputs, existing>>

\* mutant: the messages are listed whatever the run status and the first
\* assistant message of the whole listing is returned
TaReplyTextAnyStatus(st, fresh, hasText) ==
    FirstAssistant(Listing("desc", fresh), "try again")

\* process_conversation: for a completed run the text of the newest message
\* (order = DESCENDING, limit = 1) when it is an assistant message that has
\* text_messages; in every other case the try-again line
TaReplyText(st, fresh, hasText) ==
    IF st = "completed"
    THEN IF hasText
         THEN FirstAssistant(SubSeq(Listing("desc", fresh), 1, 1), "try again")
         ELSE "try again"
    ELSE "try again"

\* process_conversation: the reply it returns, printed by the loop
TaReply ==
    /\ script = "tripadvisor" /\ pc = "reply"
    /\ run' = NoRun
    /\ \/ /\ pc' = "input" /\ UNCHANGED exc
          /\ \E fresh \in Replies(run.status) :
                /\ older' = (older \/ fresh)
                /\ \E hasText \in BOOLEAN :
                      printed' = TaReplyText(run.status, fresh, hasText)
       \/ /\ run.status = "completed"
          /\ exc' = "HttpResponseError" /\ pc' = "done"
          /\ UNCHANGED <<printed, older>>
    /\ UNCHANGED <<script, deletes, outputs, svcStatus, pend, rounds, nextId, abandoned,
                   existing, hist, owed>>

TaInterrupt ==
    /\ script = "tripadvisor"
    /\ pc \in {"input", "reply", "cleanup"}
    /\ exc' = "KeyboardInterrupt"
    /\ pc' = "done"
    /\ UNCHANGED <<script, deletes, run, outputs, svc, existing, hist, turn>>

\* cleanup(): threads.delete only
TaCleanup ==
    /\ script = "tripadvisor" /\ pc = "cleanup"
    /\ \/ /\ existing' = existing \ {"thread"} /\ UNCHANGED exc
       \/ /\ exc' = "HttpResponseError" /\ UNCHANGED existing
    /\ deletes' = {"thread"}
    /\ pc' = "done"
    /\ UNCHANGED <<script, run, outputs, svc, hist, turn>>

\* --------------------------------------------------------- filesearch_agent.py
\* mutant: after a failed run the loop goes back to create_and_process
FsAfterFailedRetries == "create"

\* if run.status == "failed": print, continue
FsAfterFailed == "input"

\* input(); exit/quit/end leave the loop; otherwise messages.create.  The
\* loop is inside try/finally: an exception goes to the cleanup and then on
FsInput ==
    /\ script = "filesearch" /\ pc = "input"
    /\ \/ /\ pc' = "cleanup"
          /\ UNCHANGED <<exc, turn>>
       \/ /\ pc' = "create"
          /\ owed' = owed + 1
          /\ printed' = "nothing"
          /\ UNCHANGED exc
       \/ /\ exc' = "HttpResponseError"
          /\ pc' = "cleanup"
          /\ owed' = owed + 1
          /\ UNCHANGED printed
    /\ UNCHANGED <<script, deletes, run, outputs, svc, existing, hist>>

\* run = create_and_process(...)
FsCreateRun ==
    /\ script = "filesearch" /\ pc = "create"
    /\ \/ /\ \E st \in Terminal : NewRun(st)
          /\ NewRunHistory
          /\ owed' = owed - 1
          /\ run' = Snapshot(svcStatus', pend')
          /\ pc' = "test"
          /\ UNCHANGED exc
       \/ /\ exc' = "HttpResponseError"
          /\ pc' = "cleanup"
          /\ UNCHANGED <<run, svc, hist, owed>>
    /\ UNCHANGED <<script, deletes, outputs, existing, printed>>

\* the if on run.status after create_and_process
FsLoopTest ==
    /\ script = "filesearch" /\ pc = "test"
    /\ IF run.status = "failed"
       THEN /\ printed' = "failure"
            /\ pc' = FsAfterFailed
       ELSE /\ pc' = "reply"
            /\ UNCHANGED printed
    /\ UNCHANGED <<script, deletes, exc, run, outputs, svc, existing, hist, owed>>

\* messages = list(messages.list(thread_id)); the first assistant message
\* with content of reversed(messages), or the no-response line
FsReplyText(order, fresh) ==
    FirstAssistant(Reverse(Listing(order, fresh)), "no reply")

\* time.sleep(1), messages.list, print
FsReply ==
    /\ script = "filesearch" /\ pc = "reply"
    /\ \/ /\ pc' = "input" /\ UNCHANGED exc
          /\ \E fresh \in Replies(run.status) :
                /\ older' = (older \/ fresh)
                /\ \E order \in ListOrders :
                      printed' = FsReplyText(order, fresh)
       \/ /\ exc' = "HttpResponseError" /\ pc' = "cleanup"
          /\ UNCHANGED <<printed, older>>
    /\ UNCHANGED <<script, deletes, run, outputs, svcStatus, pend, rounds, nextId, abandoned,
                   existing, hist, owed>>

\* Ctrl-C anywhere inside the try block
FsInterrupt ==
    /\ script = "filesearch"
    /\ pc \in {"input", "create", "test", "reply"}
    /\ exc' = "KeyboardInterrupt"
    /\ pc' = "cleanup"
    /\ UNCHANGED <<script, deletes, run, outputs, svc, existing, hist, turn>>

\* finally: delete_agent in its own try, files.delete in its own try; the
\* thread is not deleted
FsCleanup ==
    /\ script = "filesearch" /\ pc = "cleanup"
    /\ \E agentOk, fileOk \in BOOLEAN :
          existing' = existing \ ((IF agentOk THEN {"agent"} ELSE {})
                                     \cup (IF fileOk THEN {"file"} ELSE {}))
    /\ deletes' = {"agent", "file"}
    /\ pc' = "done"
    /\ UNCHANGED <<script, exc, run, outputs, svc, hist, turn>>

\* ------------------------------------------------------------ specification
Init ==
    /\ script \in Scripts
    /\ pc = "input"
    /\ exc = "none"
    /\ run = NoRun
    /\ outputs = <<>>
    /\ svcStatus = "none"
    /\ pend = NoAction
    /\ rounds = 0
    /\ nextId = 1
    /\ abandoned = FALSE
    /\ existing = Created(script)
    /\ invoked = <<>>
    /\ raisedIn = {}
    /\ nsub = 0
    /\ polls = 0
    /\ older = FALSE
    /\ owed = 0
    /\ printed = "nothing"
    /\ deletes = {}

\* the steps of the script: its statements, and the user's Ctrl-C
ScriptNext ==
    \/ EmailInput \/ EmailLoopTest \/ EmailResolve \/ EmailSubmit
    \/ EmailPoll \/ EmailReply \/ EmailInterrupt \/ EmailCleanup
    \/ FdInput \/ FdLoopTest \/ FdPoll \/ FdResolve \/ FdSubmit
    \/ FdReply \/ FdInterrupt \/ FdCleanup
    \/ CiInput \/ CiPoll \/ CiReply \/ CiInterrupt \/ CiCleanup
    \/ AzInput \/ AzLoopTest \/ AzReply \/ AzInterrupt
    \/ TaInput \/ TaReply \/ TaInterrupt \/ TaCleanup
    \/ FsInput \/ FsCreateRun \/ FsLoopTest \/ FsReply \/ FsInterrupt \/ FsCleanup

Next == RemoteStep \/ RemoteExpire \/ ScriptNext

Spec == Init /\ [][Next]_vars

\* the steps the running script takes by itself: everything but waiting at
\* the input prompt and being interrupted
ScriptStep ==
    \/ EmailLoopTest \/ EmailResolve \/ EmailSubmit \/ EmailPoll
    \/ EmailReply \/ EmailCleanup
    \/ FdLoopTest \/ FdPoll \/ FdResolve \/ FdSubmit \/ FdReply \/ FdCleanup
    \/ CiPoll \/ CiReply \/ CiCleanup
    \/ AzLoopTest \/ AzReply
    \/ TaReply \/ TaCleanup
    \/ FsCreateRun \/ FsLoopTest \/ FsReply \/ FsCleanup

\* a script that can take a step takes it; nothing is assumed of the
\* service, the user or the network
PollingSpec == Spec /\ WF_vars(ScriptStep)

\* the service working on a run that waits for nothing from the script
RemoteProgress == RemoteStep /\ svcStatus \in Pending

\* the service never ends a run that waits for outputs, it does not leave a
\* run queued or in_progress for ever while the script looks at it, and the
\* script keeps taking its steps
LiveNext == RemoteStep \/ ScriptNext

LiveSpec ==
    /\ Init /\ [][LiveNext]_vars
    /\ WF_vars(ScriptStep) /\ SF_vars(RemoteProgress)
\* ------------------------------------------------------------------ claims
\* the tool calls of the run as the script observed it
Surfaced == run.required_action.calls

\* the script is about to hand `outputs` to submit_tool_outputs
Submitting == script \in {"email", "freshdesk"} /\ pc = "submit"

\* the script has no handler for this function name
NoHandler(name) ==
    \/ script = "email" /\ name # "send_email"
    \/ script = "freshdesk" /\ name # "create_freshdesk_ticket"

ErrorPayloads ==
    {"Error", "status_code error", "Unknown tool"}
        \cup {"Failed: " \o h : h \in HttpResults \ {"raise"}}

\* C1: for a requires_action observation with a non-empty list of tool
\* calls, the submitted batch holds exactly one output per surfaced call and
\* its tool_call_id values are exactly the surfaced ids, whatever the mix of
\* function names.
C1_OneOutputPerCall ==
    (Submitting /\ Surfaced # <<>>) =>
        /\ Len(outputs) = Len(Surfaced)
        /\ OutIds(outputs) = Ids(Surfaced)
        /\ Cardinality(OutIds(outputs)) = Len(outputs)

\* C2: a tool call whose function name has no local handler gets, in the
\* submitted batch, an output for its id carrying an unknown-tool error, and
\* no handler was invoked for it.
C2_UnknownToolReported ==
    Submitting =>
        \A i \in DOMAIN Surfaced :
            NoHandler(Surfaced[i].name) =>
                /\ \E j \in DOMAIN outputs :
                      /\ outputs[j].tool_call_id = Surfaced[i].id
                      /\ outputs[j].output = "Unknown tool"
                /\ \A k \in DOMAIN invoked : invoked[k] # Surfaced[i].id

\* C3: when the handler invoked for a tool call raises, the failure does not
\* leave the tool-call loop: the script goes on to submit a batch holding an
\* error output for that call.
C3_HandlerFailureAbsorbed ==
    \A c \in raisedIn :
        /\ exc # "RequestException"
        /\ (Submitting /\ c \in Ids(Surfaced)) =>
              \E j \in DOMAIN outputs :
                  /\ outputs[j].tool_call_id = c
                  /\ outputs[j].output \in ErrorPayloads

\* C4: over the lifetime of a run every surfaced tool call id is handed to
\* its handler at most once.
C4_DispatchedAtMostOnce ==
    \A i, j \in DOMAIN invoked : invoked[i] = invoked[j] => i = j

C4_Witness ==
    /\ script \in {"email", "freshdesk"}
    /\ rounds = 2 /\ nsub = 2 /\ Len(invoked) >= 2
    /\ pc = "reply" /\ run.status = "completed"

\* C5: the i-th output of the submitted batch carries the id of the i-th
\* surfaced tool call.
C5_OutputsInCallOrder ==
    Submitting =>
        \A i \in DOMAIN outputs :
            i \in DOMAIN Surfaced /\ outputs[i].tool_call_id = Surfaced[i].id

\* C6: once the tool-call loop has observed a terminal run status it invokes
\* no handler, submits no outputs and does not poll the run again.
C6_NoActionAfterTerminal ==
    [][(script \in {"email", "freshdesk"} /\ run.status \in Terminal
            /\ pc # "input")
        => (invoked' = invoked /\ nsub' = nsub /\ polls' = polls)]_vars

C6_Witness ==
    /\ script \in {"email", "freshdesk"}
    /\ run.status \in Terminal /\ pc = "reply" /\ nsub >= 1

\* C7: the chat loop is at its input prompt, and creates a run, only when the
\* previous run of the thread is terminal: no run is superseded while it is
\* not terminal.
C7_OneActiveRun ==
    script \in {"email", "freshdesk", "code_interpreter"} =>
        /\ ~abandoned
        /\ pc = "input" => svcStatus \in Terminal \cup {"none"}

C7_Witness ==
    /\ script \in {"email", "freshdesk", "code_interpreter"}
    /\ pc = "input" /\ svcStatus \in Terminal /\ exc = "none"

\* C8: when a script has stopped, every resource it created has been deleted.
C8_ResourcesDeletedOnExit ==
    pc = "done" => existing \cap Created(script) = {}

\* C9: on a requires_action observation whose pending tool calls are missing
\* or empty the loop raises to its caller: it neither polls again nor submits.
Malformed(r) ==
    /\ r.status = "requires_action"
    /\ ~r.required_action.present \/ r.required_action.calls = <<>>

C9_MalformedRaises ==
    [][(script \in {"email", "freshdesk"} /\ Malformed(run) /\ pc # "input")
        => (polls' = polls /\ nsub' = nsub)]_vars

\* C10: while the observed run status is queued or in_progress the loop
\* invokes no handler and submits no outputs.
C10_PendingOnlyPolls ==
    [][(script \in {"email", "freshdesk"} /\ run.status \in Pending)
        => (invoked' = invoked /\ nsub' = nsub)]_vars

C10_Witness ==
    /\ script \in {"email", "freshdesk"}
    /\ run.status = "in_progress" /\ pc = "test" /\ nsub = 1

\* C11: a run that ended failed or cancelled is not retried: the script never
\* creates more runs than it has taken user messages, and once the run of a
\* message is created every message taken has exactly one run.
C11_NoRetry ==
    script \in {"email", "freshdesk", "filesearch"} =>
        /\ owed >= 0
        /\ (exc = "none" /\ pc # "create") => owed = 0

C11_Witness ==
    /\ script \in {"email", "freshdesk", "filesearch"}
    /\ pc = "input" /\ exc = "none"
    /\ svcStatus \in {"failed", "cancelled"} /\ owed = 0

\* the script is in its polling loop
Polling == pc \in {"test", "get"}

\* C12: the polling loops give up: when the run stays queued or in_progress
\* for ever, the script stops polling after some number of runs.get requests.
C12_PollingGivesUp ==
    (script \in {"email", "freshdesk", "code_interpreter"}
        /\ <>[](svcStatus \in Pending))
    => <>[](~Polling)

\* C13: a request to the service that fails while the loop polls the run or
\* submits outputs does not leave the loop as an exception (the run is
\* taken as failed instead).
C13_RemoteFailureAbsorbed ==
    [][(script \in {"email", "freshdesk"} /\ pc \in {"get", "submit"})
        => exc' # "HttpResponseError"]_vars

\* the tool_call_id values of a batch, in order
IdSeq(batch) == [i \in DOMAIN batch |-> batch[i].tool_call_id]

\* the for-loop of the script run once more on the surfaced list
ResolveAgain(fate) ==
    IF script = "email" THEN EmailFor(Surfaced, fate, 1, <<>>, <<>>)
    ELSE [outputs |-> FdFor(Surfaced, fate, 1, <<>>, <<>>).outputs,
          invoked |-> <<>>,
          exc |-> FdFor(Surfaced, fate, 1, <<>>, <<>>).exc]

\* C14: resolving the same list of pending tool calls again, with the same
\* handlers but any other outcome of each handler, gives a batch with the
\* same sequence of tool_call_id values as the batch the script has built
\* (the payloads may differ).  The second resolution meets the same outcome
\* f at every call; the batch the script has built met any outcomes.
C14_SameIdsWhenResolvedAgain ==
    Submitting =>
        \A f \in Fates :
            LET again == ResolveAgain([i \in DOMAIN Surfaced |-> f])
            IN again.exc = "none" => IdSeq(again.outputs) = IdSeq(outputs)

C14_Witness ==
    /\ Submitting /\ Len(Surfaced) = 2 /\ Len(outputs) >= 1
    /\ \E i \in DOMAIN outputs : outputs[i].output \in ErrorPayloads

\* C15: when the user interrupts email_integration, the interrupting step
\* takes the script to its cleanup without a handler call, a submission or
\* a poll, and from then on the script only finishes: nothing is submitted
\* and the run is not polled again.
C15_InterruptGoesToCleanup ==
    [][script = "email" =>
        /\ (exc = "none" /\ exc' = "KeyboardInterrupt") =>
              (pc' = "cleanup" /\ nsub' = nsub /\ polls' = polls
                  /\ invoked' = invoked)
        /\ exc = "KeyboardInterrupt" =>
              (pc' = "done" /\ nsub' = nsub /\ polls' = polls
                  /\ invoked' = invoked)]_vars

C15_Witness ==
    /\ script = "email" /\ exc = "KeyboardInterrupt" /\ pc = "done"
    /\ svcStatus = "requires_action" /\ pend.calls # <<>> /\ nsub = 0

\* C16: resume protocol.  The loop does not read the run status again while
\* the status it holds is requires_action (it submits first); it submits
\* outputs in no other observed status; and an accepted submission is
\* followed by polling.
C16_ResumeProtocol ==
    [][(script \in {"email", "freshdesk"}) =>
        (/\ polls' # polls => run.status # "requires_action"
         /\ nsub' # nsub => run.status = "requires_action"
         /\ (nsub' # nsub /\ exc' = "none") => pc' \in {"test", "get"})]_vars

\* between run creation and the printed reply
InRun == pc \in {"test", "get", "resolve", "submit", "reply"}

\* C17: if the service moves every run on once it has what it asked for, and
\* no request fails and the user does not interrupt, then whatever tool calls
\* the agent asks for (names without a handler included) the polling loop
\* of email_integration and of freshdesk_integration exits and the script
\* is back at its input prompt.
C17_BackToPrompt ==
    (script \in {"email", "freshdesk"}
        /\ [](exc \notin {"KeyboardInterrupt", "HttpResponseError"}))
    => [](InRun => <>(pc = "input"))

\* C18: what a turn prints as the agent's reply is the assistant message its
\* own run produced: never the assistant message of an earlier turn, and
\* never a message that is not the assistant's, also when the run failed or
\* left no assistant message.
C18_ReplyIsOfThisRun ==
    script \in {"freshdesk", "filesearch", "email", "azureai_search"} =>
        printed \notin {"earlier", "user"}

\* the script is at the statement that follows a run returned as failed
AfterFailedRun ==
    /\ run.status = "failed"
    /\ \/ script \in {"filesearch", "azureai_search"} /\ pc = "test"
       \/ script = "code_interpreter" /\ pc = "reply"

\* C19: after a failed run filesearch_agent and code_interpreter_agent print
\* the failure, print no reply and are back at the input prompt, whereas
\* azureai_search_agent leaves its chat loop and ends.
C19_FailedRunPolicy ==
    [][(AfterFailedRun /\ exc' = "none") =>
        IF script = "azureai_search"
        THEN pc' = "done" /\ printed' = "failure"
        ELSE pc' = "input" /\ printed' = "failure"]_vars

C19_Witness ==
    /\ script = "azureai_search" /\ run.status = "failed"
    /\ pc = "done" /\ exc = "none" /\ printed = "failure"
    /\ "agent" \in existing

\* every surfaced call names the function the script handles
AllKnown == \A i \in DOMAIN Surfaced : ~NoHandler(Surfaced[i].name)

\* C20: when every surfaced tool call names a function the script handles,
\* arguments text that is empty, cannot be decoded or lacks an expected key
\* does not end the tool-call loop with an exception: the for-loop ends with
\* a batch to submit.
C20_BadArgumentsAbsorbed ==
    [][(script \in {"email", "freshdesk"} /\ pc = "resolve" /\ AllKnown)
        => exc' \notin {"JSONDecodeError", "KeyError"}]_vars

\* C21: after each runs.get the polling loop of code_interpreter_agent is
\* left exactly when the status it read is one the loops of
\* email_integration and freshdesk_integration treat as finished, that is
\* any status other than queued, in_progress and requires_action.
C21_SameFinishedStatuses ==
    [][(script = "code_interpreter" /\ pc = "get" /\ polls' # polls
            /\ exc' = "none")
        => /\ (pc' = "reply") = ~EmailLoopCond(run'.status)
           /\ (pc' = "reply") = ~FdLoopCond(run'.status)]_vars

\* the strings send_email_function can return
SendEmailStrings ==
    {"Email sent!", "Error"} \cup {"Failed: " \o h : h \in {"201", "500"}}

\* C22: send_email_function never raises: it returns the success string
\* exactly for status 200 or 202, a failure string carrying the status code
\* for any other status and an error string when the request raises; so in
\* email_integration no handler failure leaves the loop and every
\* send_email call handed to the handler has a string output in the batch.
C22_SendEmailNeverRaises ==
    /\ \A h \in HttpResults :
          /\ send_email_function(h) # Raises
          /\ (send_email_function(h) = "Email sent!") = (h \in {"200", "202"})
          /\ (send_email_function(h) = "Error") = (h = "raise")
          /\ h \in {"201", "500"} => send_email_function(h) = "Failed: " \o h
    /\ script = "email" =>
          /\ exc # "RequestException"
          /\ Submitting =>
                \A k \in DOMAIN invoked :
                    invoked[k] \in Ids(Surfaced) =>
                        \E j \in DOMAIN outputs :
                            /\ outputs[j].tool_call_id = invoked[k]
                            /\ outputs[j].output \in SendEmailStrings

C22_Witness ==
    /\ script = "email" /\ Submitting /\ Len(outputs) = 2
    /\ outputs[1].output = "Error" /\ outputs[2].output = "Failed: 201"

\* C23: the cleanup of email_integration attempts both deletions whatever
\* the outcome of the first: once it has run, a delete request was issued
\* for the thread and for the agent.
C23_BothDeletesAttempted ==
    (script = "email" /\ pc = "done") => deletes = {"thread", "agent"}

\* C24: process_conversation returns the text of an assistant message only
\* when the run ended completed and the newest message of the thread is an
\* assistant message of this run with text; in every other case it returns
\* the try-again line; and after a run that did not complete it makes no
\* further request, so it does not raise.
C24_TryAgainUnlessCompleted ==
    /\ \A st \in Terminal, fresh \in BOOLEAN, hasText \in BOOLEAN :
          TaReplyText(st, fresh, hasText) =
              IF st = "completed" /\ fresh /\ hasText
              THEN "current" ELSE "try again"
    /\ [][(script = "tripadvisor" /\ pc = "reply"
               /\ exc' # "KeyboardInterrupt")
           => /\ run.status # "completed" =>
                    (exc' = "none" /\ pc' = "input"
                        /\ printed' = "try again")
              /\ exc' = "none" => printed' \in {"current", "try again"}
              /\ printed' = "current" => (run.status = "completed" /\ older')
          ]_vars

C24_Witness ==
    /\ script = "tripadvisor" /\ pc = "input" /\ exc = "none"
    /\ svcStatus \in {"failed", "cancelled"} /\ printed = "try again"
    /\ older
====
